---------------------------- MODULE Spec2Model ----------------------------
(***************************************************************************)
(* Model of the waste-management terminal editor, src/wmtui.go.            *)
(*                                                                         *)
(* The source file holds two complete programs (two `package main`         *)
(* units):                                                                 *)
(*   program 1, lines 1-436   : the form is five bubbles textinput fields  *)
(*                              (model.inputs, model.focusIndex);          *)
(*   program 2, lines 438-754 : the form is one text buffer (model.input)  *)
(*                              and one inputmode per field.               *)
(* Both are modelled; the variable prog says which one is running, and a   *)
(* definition whose name ends in 1 or 2 models the function of that name   *)
(* in program 1 or 2.                                                      *)
(*                                                                         *)
(* A Bubble Tea program is a loop: one message at a time is handed to      *)
(* model.Update, which returns the next model and a command.  The Go       *)
(* model is the record m; a handler is an operator from the model, the     *)
(* store and the key to a result [m, cmd, st, calls].                      *)
(*                                                                         *)
(* Go indices start at 0 and TLA+ sequences at 1: waste[i] in Go is        *)
(* At(waste, i) here.  A string is the sequence of the keys typed.         *)
(***************************************************************************)
EXTENDS Integers, Sequences, FiniteSets, TLC

\* ------------------------------------------------------------------ bounds

\* The longest item list explored: the store holds at most MaxWaste rows at
\* startup, and program 2 appends to the list only below this length.
MaxWaste == 2

\* The number of character keys typed in one run.
MaxTyped == 1

\* --------------------------------------------------------- program constants

\* len(m.inputs): the form has five fields.
NumInputs == 5

\* inputmode values (iota).
normal == 0
addingName == 1
addingQuantity == 2
addingWasteType == 3
addingLocation == 4
addingMethod == 5

\* msg.String() of a key message.  The handlers are modelled for every key
\* they name; the runs press, in normal mode, the keys of Keys: one key for
\* each case of updateNormal ("ctrl+c", "k", "j", "tab" and "shift+tab" take
\* the case of "q", "up", "down", "down" and "up") and "enter" for the keys
\* it ignores.
QuitKeys == {"ctrl+c", "q"}
TextKeys == {"1", "q"}
Keys == {"q", "up", "down", "a", "d", "enter"}

\* The keys whose handling may call the store.
StoreKeys == {"d", "enter"}

\* In a form the model offers enter, esc and the text keys.
FormKeys == {"enter", "esc"} \cup TextKeys

\* m.err: nil, or the message prefix of the fmt.Errorf that set it.
ErrNil == "nil"
ErrDelete == "failed to delete item"
ErrAdd == "failed to add item"
ErrQuantity1 == "invalid quantity"
ErrQuantity2 == "invalid quantity entered"

VARIABLES
    prog,      \* 1 or 2: which program of the file runs
    status,    \* "main" (starting), "fatal" (log.Fatalf), "running",
               \* "quit" (tea.Quit returned), "panic" (index out of range)
    db,        \* the store: [rows: the waste_items table, nextId]
    m,         \* the Bubble Tea model
    key,       \* the key message Update handled last ("" before the first)
    calls,     \* the store calls made while handling that message
    typed,     \* per field, the characters keyed while it had the focus,
               \* since the form was last opened
    atAdd,     \* in a form, the item list and the cursor when it was opened
    nTyped     \* character keys typed so far

vars == <<prog, status, db, m, key, calls, typed, atAdd, nTyped>>

\* ------------------------------------------------------------- data model

Fields == 0 .. NumInputs - 1

wasteItem(id, name, quantity, wasteType, location, method) ==
    [id |-> id, name |-> name, quantity |-> quantity,
     wasteType |-> wasteType, location |-> location, method |-> method]

\* Go's zero value of wasteItem.
zeroItem == wasteItem(0, <<>>, 0, <<>>, <<>>, <<>>)

\* The i-th row the store holds at startup.
Row(i) == wasteItem(i, <<>>, i, <<>>, <<>>, <<>>)

\* s[i] with Go's index.
At(s, i) == s[i + 1]

InRange(s, i) == 0 <= i /\ i < Len(s)

\* A variant of RemoveAt that drops the last element instead of element i.
RemoveLast(s, i) == SubSeq(s, 1, Len(s) - 1)

\* append(s[:i], s[i+1:]...)
RemoveAt(s, i) == [j \in 1 .. Len(s) - 1 |-> IF j <= i THEN s[j] ELSE s[j + 1]]

\* s with its last element replaced: s[len(s)-1] = x.
SetLast(s, x) == [s EXCEPT ![Len(s)] = x]

\* textinput.New(): empty and blurred.
newInput == [value |-> <<>>, focus |-> FALSE]

RECURSIVE Decimal(_)
\* The number a string of digits denotes.
Decimal(s) == IF s = <<>> THEN 0
              ELSE 10 * Decimal(SubSeq(s, 1, Len(s) - 1)) + 1

\* strconv.ParseFloat(s, 64) on the strings of the model: text keys "1" and
\* "q".  A non-empty string of digits parses to its value; the empty string
\* and a string holding a letter are a syntax error.
ParseFloat(s) ==
    IF s # <<>> /\ \A i \in 1 .. Len(s) : s[i] = "1"
    THEN [err |-> FALSE, val |-> Decimal(s)]
    ELSE [err |-> TRUE, val |-> 0]

\* ------------------------------------------------------------------ store

\* db.Exec("DELETE FROM waste_items WHERE id = ?", id).  ok: the store
\* answers without an error.  Deleting an absent id deletes nothing.
deleteWasteItem(st, id, ok) ==
    [st |-> IF ok
            THEN [st EXCEPT !.rows = SelectSeq(st.rows, LAMBDA r : r.id # id)]
            ELSE st,
     err |-> ~ok,
     call |-> [op |-> "delete", id |-> id, ok |-> ok]]

\* db.Exec("INSERT ...") and result.LastInsertId(): AUTOINCREMENT hands out
\* st.nextId.
insertRow(st, item, ok) ==
    [st |-> IF ok
            THEN [rows |-> Append(st.rows, [item EXCEPT !.id = st.nextId]),
                  nextId |-> st.nextId + 1]
            ELSE st,
     err |-> ~ok,
     id |-> IF ok THEN st.nextId ELSE 0,
     call |-> [op |-> "insert", id |-> IF ok THEN st.nextId ELSE 0, ok |-> ok]]

\* loadWasteItems: SELECT ... FROM waste_items.
loadWasteItems(st) == st.rows

\* ---------------------------------------------------------------- results

\* What a handler returns: the model, the command ("nil", "Quit"; "panic"
\* when the handler died of an index out of range), the store and the store
\* calls it made.
Ret(mm, cmd, st, cs) == [m |-> mm, cmd |-> cmd, st |-> st, calls |-> cs]

\* -------------------------------------------------- program 2 (lines 438-754)

\* initialModel: the list loaded from the store, mode normal, cursor 0.
\* The fields of program 1's model (inputs, focusIndex) do not exist in
\* program 2 and keep their zero values.
initialModel2(st) ==
    [waste |-> loadWasteItems(st), cursor |-> 0, input |-> <<>>,
     inputmode |-> normal, err |-> ErrNil,
     inputs |-> [i \in Fields |-> newInput], focusIndex |-> 0]

\* A variant of addWasteItem that also moves the cursor to the item it
\* wrote.
addWasteItemSelects2(mm, st, item, ok) ==
    LET r == insertRow(st, item, ok) IN
    IF r.err THEN [m |-> mm, st |-> r.st, err |-> TRUE, panic |-> FALSE,
                   call |-> r.call]
    ELSE IF Len(mm.waste) = 0
    THEN [m |-> mm, st |-> r.st, err |-> FALSE, panic |-> TRUE,
          call |-> r.call]
    ELSE [m |-> [mm EXCEPT !.waste = SetLast(@, [item EXCEPT !.id = r.id]),
                           !.cursor = Len(mm.waste) - 1],
          st |-> r.st, err |-> FALSE, panic |-> FALSE, call |-> r.call]

\* addWasteItem: insert the item; on success write the item with its new id
\* over the last element of m.waste.  The receiver is a copy of the model,
\* but its waste slice shares the caller's backing array, so the caller sees
\* the write.
addWasteItem2(mm, st, item, ok) ==
    LET r == insertRow(st, item, ok) IN
    IF r.err THEN [m |-> mm, st |-> r.st, err |-> TRUE, panic |-> FALSE,
                   call |-> r.call]
    ELSE IF Len(mm.waste) = 0
    THEN [m |-> mm, st |-> r.st, err |-> FALSE, panic |-> TRUE,
          call |-> r.call]
    ELSE [m |-> [mm EXCEPT !.waste = SetLast(@, [item EXCEPT !.id = r.id])],
          st |-> r.st, err |-> FALSE, panic |-> FALSE, call |-> r.call]

\* A variant of deleteSelected2 that removes the item before it looks at the
\* store's answer.
deleteSpeculative2(mm, st, ok) ==
    IF Len(mm.waste) > 0
    THEN IF ~InRange(mm.waste, mm.cursor)
         THEN Ret(mm, "panic", st, <<>>)
         ELSE LET r == deleteWasteItem(st, At(mm.waste, mm.cursor).id, ok)
                  w == RemoveAt(mm.waste, mm.cursor)
                  m1 == [mm EXCEPT !.waste = w,
                                   !.cursor = IF mm.cursor >= Len(w)
                                              THEN Len(w) - 1 ELSE mm.cursor]
              IN  IF r.err
                  THEN Ret([m1 EXCEPT !.err = ErrDelete], "nil", r.st, <<r.call>>)
                  ELSE Ret(m1, "nil", r.st, <<r.call>>)
    ELSE Ret(mm, "nil", st, <<>>)

\* updateNormal, case "d".
deleteSelected2(mm, st, ok) ==
    IF Len(mm.waste) > 0
    THEN IF ~InRange(mm.waste, mm.cursor)
         THEN Ret(mm, "panic", st, <<>>)
         ELSE LET r == deleteWasteItem(st, At(mm.waste, mm.cursor).id, ok) IN
              IF r.err
              THEN Ret([mm EXCEPT !.err = ErrDelete], "nil", r.st, <<r.call>>)
              ELSE LET w == RemoveAt(mm.waste, mm.cursor) IN
                   Ret([mm EXCEPT !.waste = w,
                                  !.cursor = IF mm.cursor >= Len(w)
                                             THEN Len(w) - 1 ELSE mm.cursor],
                       "nil", r.st, <<r.call>>)
    ELSE Ret(mm, "nil", st, <<>>)

\* updateNormal, cases "up"/"k" and "down"/"j".
moveUp2(mm) == IF mm.cursor > 0 THEN [mm EXCEPT !.cursor = @ - 1] ELSE mm

moveDown2(mm) ==
    IF mm.cursor < Len(mm.waste) - 1 THEN [mm EXCEPT !.cursor = @ + 1] ELSE mm

\* updateNormal, case "a".
startAdding2(mm) == [mm EXCEPT !.inputmode = addingName, !.input = <<>>]

updateNormal2(mm, st, k, ok) ==
    CASE k \in QuitKeys -> Ret(mm, "Quit", st, <<>>)
      [] k \in {"up", "k"} -> Ret(moveUp2(mm), "nil", st, <<>>)
      [] k \in {"down", "j"} -> Ret(moveDown2(mm), "nil", st, <<>>)
      [] k = "a" -> Ret(startAdding2(mm), "nil", st, <<>>)
      [] k = "d" -> deleteSelected2(mm, st, ok)
      [] OTHER -> Ret(mm, "nil", st, <<>>)

\* A variant of the confirm on the method field that calls addWasteItem a
\* second time when the first call failed.
confirmMethodRetry2(mm, st, ok) ==
    IF Len(mm.waste) = 0 THEN Ret(mm, "panic", st, <<>>)
    ELSE LET last == At(mm.waste, Len(mm.waste) - 1)
             m1 == [mm EXCEPT !.waste = SetLast(@, [last EXCEPT !.method = mm.input])]
             item == At(m1.waste, Len(m1.waste) - 1)
             r1 == addWasteItem2(m1, st, item, ok)
             r == IF r1.err THEN addWasteItem2(m1, r1.st, item, TRUE) ELSE r1
             m2 == IF r.err THEN [r.m EXCEPT !.err = ErrAdd] ELSE r.m
         IN  Ret([m2 EXCEPT !.inputmode = normal, !.input = <<>>],
                 IF r.panic THEN "panic" ELSE "nil", r.st,
                 IF r1.err THEN <<r1.call, r.call>> ELSE <<r.call>>)

\* updateAddingText, case "enter", case addingMethod: store the method, insert
\* the item, report a failure in m.err, and return to normal mode either way.
confirmMethod2(mm, st, ok) ==
    IF Len(mm.waste) = 0 THEN Ret(mm, "panic", st, <<>>)
    ELSE LET last == At(mm.waste, Len(mm.waste) - 1)
             m1 == [mm EXCEPT !.waste = SetLast(@, [last EXCEPT !.method = mm.input])]
             r == addWasteItem2(m1, st, At(m1.waste, Len(m1.waste) - 1), ok)
             m2 == IF r.err THEN [r.m EXCEPT !.err = ErrAdd] ELSE r.m
         IN  Ret([m2 EXCEPT !.inputmode = normal, !.input = <<>>],
                 IF r.panic THEN "panic" ELSE "nil", r.st, <<r.call>>)

\* updateAddingText, case "enter", the other three modes.
confirmText2(mm) ==
    CASE mm.inputmode = addingName ->
            [mm EXCEPT !.waste = Append(@, [zeroItem EXCEPT !.name = mm.input]),
                       !.inputmode = addingQuantity, !.input = <<>>]
      [] mm.inputmode = addingWasteType ->
            [mm EXCEPT !.waste = SetLast(@, [@[Len(@)] EXCEPT !.wasteType = mm.input]),
                       !.inputmode = addingLocation, !.input = <<>>]
      [] mm.inputmode = addingLocation ->
            [mm EXCEPT !.waste = SetLast(@, [@[Len(@)] EXCEPT !.location = mm.input]),
                       !.inputmode = addingMethod, !.input = <<>>]

\* A variant of cancel2 that leaves the text buffer as it is.
cancelKeepsInput2(mm) == [mm EXCEPT !.inputmode = normal]

\* case "esc" of updateAddingText and of updateAddingQuantity.
cancel2(mm) == [mm EXCEPT !.inputmode = normal, !.input = <<>>]

\* default case of updateAddingText and of updateAddingQuantity:
\* m.input += msg.String().
typeKey2(mm, k) == [mm EXCEPT !.input = Append(@, k)]

updateAddingText2(mm, st, k, ok) ==
    CASE k = "enter" ->
            IF mm.inputmode = addingMethod THEN confirmMethod2(mm, st, ok)
            ELSE IF mm.inputmode # addingName /\ Len(mm.waste) = 0
                 THEN Ret(mm, "panic", st, <<>>)
                 ELSE Ret(confirmText2(mm), "nil", st, <<>>)
      [] k = "esc" -> Ret(cancel2(mm), "nil", st, <<>>)
      [] OTHER -> Ret(typeKey2(mm, k), "nil", st, <<>>)

\* updateAddingQuantity, case "enter".
confirmQuantity2(mm) ==
    LET q == ParseFloat(mm.input) IN
    IF q.err
    THEN [mm EXCEPT !.err = ErrQuantity2, !.input = <<>>]
    ELSE [mm EXCEPT !.waste = SetLast(@, [@[Len(@)] EXCEPT !.quantity = q.val]),
                    !.inputmode = addingWasteType, !.err = ErrNil,
                    !.input = <<>>]

updateAddingQuantity2(mm, st, k, ok) ==
    CASE k = "enter" ->
            IF ~ParseFloat(mm.input).err /\ Len(mm.waste) = 0
            THEN Ret(mm, "panic", st, <<>>)
            ELSE Ret(confirmQuantity2(mm), "nil", st, <<>>)
      [] k = "esc" -> Ret(cancel2(mm), "nil", st, <<>>)
      [] OTHER -> Ret(typeKey2(mm, k), "nil", st, <<>>)

\* Update: a key message goes to the handler of the input mode.
Update2(mm, st, k, ok) ==
    CASE mm.inputmode = normal -> updateNormal2(mm, st, k, ok)
      [] mm.inputmode = addingQuantity -> updateAddingQuantity2(mm, st, k, ok)
      [] OTHER -> updateAddingText2(mm, st, k, ok)


\* ---------------------------------------------------- program 1 (lines 1-436)

\* textinput's Focus, Blur and SetValue.
Focus(t) == [t EXCEPT !.focus = TRUE]

Blur(t) == [t EXCEPT !.focus = FALSE]

SetValue(t, s) == [t EXCEPT !.value = s]

\* initialModel: the list loaded from the store, five new text inputs of
\* which the first is given the focus, mode normal, cursor 0, focusIndex 0.
initialModel1(st) ==
    [waste |-> loadWasteItems(st), cursor |-> 0, input |-> <<>>,
     inputmode |-> normal, err |-> ErrNil,
     inputs |-> [i \in Fields |-> IF i = 0 THEN Focus(newInput) ELSE newInput],
     focusIndex |-> 0]

\* addWasteItem: as in program 2, the item is written over the last element
\* of m.waste.
addWasteItem1(mm, st, item, ok) ==
    LET r == insertRow(st, item, ok) IN
    IF r.err THEN [m |-> mm, st |-> r.st, err |-> TRUE, panic |-> FALSE,
                   call |-> r.call]
    ELSE IF Len(mm.waste) = 0
    THEN [m |-> mm, st |-> r.st, err |-> FALSE, panic |-> TRUE,
          call |-> r.call]
    ELSE [m |-> [mm EXCEPT !.waste = SetLast(@, [item EXCEPT !.id = r.id])],
          st |-> r.st, err |-> FALSE, panic |-> FALSE, call |-> r.call]

\* submitWasteItem: parse the quantity field; build the item from the five
\* field values; insert it; on success clear the fields and return to normal
\* mode.
submitWasteItem1(mm, st, ok) ==
    LET q == ParseFloat(mm.inputs[1].value) IN
    IF q.err THEN Ret([mm EXCEPT !.err = ErrQuantity1], "nil", st, <<>>)
    ELSE LET newItem == wasteItem(0, mm.inputs[0].value, q.val,
                                  mm.inputs[2].value, mm.inputs[3].value,
                                  mm.inputs[4].value)
             r == addWasteItem1(mm, st, newItem, ok)
         IN  IF r.err
             THEN Ret([r.m EXCEPT !.err = ErrAdd], "nil", r.st, <<r.call>>)
             ELSE Ret([r.m EXCEPT !.inputmode = normal,
                                  !.inputs = [i \in Fields |-> SetValue(@[i], <<>>)],
                                  !.focusIndex = 0],
                      IF r.panic THEN "panic" ELSE "nil", r.st, <<r.call>>)

\* updateNormal, case "tab", "shift+tab", "up", "down": move focusIndex with
\* wraparound over 0 .. len(inputs), focus the input it names and blur the
\* others.
moveFocus1(mm, k) ==
    LET f1 == IF k \in {"up", "shift+tab"} THEN mm.focusIndex - 1
              ELSE mm.focusIndex + 1
        f2 == IF f1 > NumInputs THEN 0
              ELSE IF f1 < 0 THEN NumInputs ELSE f1
    IN  [mm EXCEPT !.focusIndex = f2,
                   !.inputs = [i \in Fields |->
                                  IF i = f2 THEN Focus(@[i]) ELSE Blur(@[i])]]

\* A variant of case "a" that opens the form on the field focusIndex named
\* in Browsing mode (m.focusIndex = 0 left out).
startAddingKeepsFocus1(mm) ==
    [mm EXCEPT !.inputmode = addingName, !.inputs[0] = Focus(@)]

\* updateNormal, case "a".
startAdding1(mm) ==
    [mm EXCEPT !.inputmode = addingName, !.focusIndex = 0,
               !.inputs[0] = Focus(@)]

\* updateNormal, case "d".
deleteSelected1(mm, st, ok) ==
    IF Len(mm.waste) > 0
    THEN IF ~InRange(mm.waste, mm.cursor)
         THEN Ret(mm, "panic", st, <<>>)
         ELSE LET r == deleteWasteItem(st, At(mm.waste, mm.cursor).id, ok) IN
              IF r.err
              THEN Ret([mm EXCEPT !.err = ErrDelete], "nil", r.st, <<r.call>>)
              ELSE LET w == RemoveAt(mm.waste, mm.cursor) IN
                   Ret([mm EXCEPT !.waste = w,
                                  !.cursor = IF mm.cursor >= Len(w)
                                             THEN Len(w) - 1 ELSE mm.cursor],
                       "nil", r.st, <<r.call>>)
    ELSE Ret(mm, "nil", st, <<>>)

\* A variant of updateNormal whose focus case also lists "enter", as the
\* check s == "enter" inside it expects: enter on the submit position quits.
updateNormalEnterQuits1(mm, st, k, ok) ==
    CASE k \in QuitKeys -> Ret(mm, "Quit", st, <<>>)
      [] k \in {"tab", "shift+tab", "enter", "up", "down"} ->
            IF k = "enter" /\ mm.focusIndex = NumInputs
            THEN Ret(mm, "Quit", st, <<>>)
            ELSE Ret(moveFocus1(mm, k), "nil", st, <<>>)
      [] k = "a" -> Ret(startAdding1(mm), "nil", st, <<>>)
      [] k = "d" -> deleteSelected1(mm, st, ok)
      [] OTHER -> Ret(mm, "nil", st, <<>>)

\* updateNormal.  (The case "ctrl+r" changes only the cursor style of the
\* text inputs, which the model leaves out.)
updateNormal1(mm, st, k, ok) ==
    CASE k \in QuitKeys -> Ret(mm, "Quit", st, <<>>)
      [] k \in {"tab", "shift+tab", "up", "down"} ->
            IF k = "enter" /\ mm.focusIndex = NumInputs
            THEN Ret(mm, "Quit", st, <<>>)
            ELSE Ret(moveFocus1(mm, k), "nil", st, <<>>)
      [] k = "a" -> Ret(startAdding1(mm), "nil", st, <<>>)
      [] k = "d" -> deleteSelected1(mm, st, ok)
      [] OTHER -> Ret(mm, "nil", st, <<>>)

\* updateAdding, case "enter": advance the focus, or submit on the last
\* field.
confirm1(mm, st, ok) ==
    IF mm.focusIndex < NumInputs - 1
    THEN Ret([mm EXCEPT !.focusIndex = @ + 1,
                        !.inputs[mm.focusIndex + 1] = Focus(@)],
             "nil", st, <<>>)
    ELSE submitWasteItem1(mm, st, ok)

\* updateAdding, case "esc".
cancel1(mm) == [mm EXCEPT !.inputmode = normal, !.focusIndex = 0]

\* updateAdding: any other key returns the model as it is.  Update returns
\* from the KeyMsg case in every input mode, so no key message reaches
\* updateInputs and the text inputs.
updateAdding1(mm, st, k, ok) ==
    CASE k = "enter" -> confirm1(mm, st, ok)
      [] k = "esc" -> Ret(cancel1(mm), "nil", st, <<>>)
      [] OTHER -> Ret(mm, "nil", st, <<>>)

\* Update: a key message goes to the handler of the input mode.
Update1(mm, st, k, ok) ==
    CASE mm.inputmode = normal -> updateNormal1(mm, st, k, ok)
      [] OTHER -> updateAdding1(mm, st, k, ok)


\* ------------------------------------------------------------ the program

\* The model value before initialModel has built one.
zeroModel ==
    [waste |-> <<>>, cursor |-> 0, input |-> <<>>, inputmode |-> normal,
     err |-> ErrNil, inputs |-> [i \in Fields |-> newInput], focusIndex |-> 0]

noText == [i \in Fields |-> <<>>]

noForm == [waste |-> <<>>, cursor |-> 0]

\* The store at startup: the table holds the first n rows, n <= MaxWaste.
Stores ==
    {[rows |-> [i \in 1 .. n |-> Row(i)], nextId |-> n + 1] : n \in 0 .. MaxWaste}

Init ==
    /\ prog \in {1, 2}
    /\ status = "main"
    /\ db \in Stores
    /\ m = zeroModel
    /\ key = ""
    /\ calls = <<>>
    /\ typed = noText
    /\ atAdd = noForm
    /\ nTyped = 0

\* A variant of main that starts the loop with an empty list when the
\* initial load fails, instead of ending the process.
mainIgnoresLoadError ==
    /\ status = "main"
    /\ \E failure \in {"none", "open", "create", "load"} :
          IF failure \in {"none", "load"}
          THEN LET im == IF prog = 1 THEN initialModel1(db)
                         ELSE initialModel2(db)
               IN  /\ m' = IF failure = "load" THEN [im EXCEPT !.waste = <<>>]
                            ELSE im
                   /\ status' = "running"
          ELSE /\ m' = m
               /\ status' = "fatal"
    /\ UNCHANGED <<prog, db, key, calls, typed, atAdd, nTyped>>

\* main: open the store, create the table, load the list (initialModel),
\* then run the program.  A failure of one of the three steps ends the
\* process through log.Fatalf before the loop starts.
main ==
    /\ status = "main"
    /\ \E failure \in {"none", "open", "create", "load"} :
          IF failure = "none"
          THEN /\ m' = IF prog = 1 THEN initialModel1(db) ELSE initialModel2(db)
               /\ status' = "running"
          ELSE /\ m' = m
               /\ status' = "fatal"
    /\ UNCHANGED <<prog, db, key, calls, typed, atAdd, nTyped>>

\* The form field that has the focus: focusIndex in program 1, the input
\* mode's field in program 2.
FocusOf(mm) == IF prog = 1 THEN mm.focusIndex ELSE mm.inputmode - 1

FocusedField == FocusOf(m)

\* Update(msg) of the running program.
Update(mm, st, k, ok) ==
    IF prog = 1 THEN Update1(mm, st, k, ok) ELSE Update2(mm, st, k, ok)

\* One turn of the Bubble Tea loop on key message k: the model Update
\* returns replaces the model; tea.Quit ends the loop, a panic ends the
\* process.
Handle(k, ok) ==
    LET r == Update(m, db, k, ok) IN
    /\ m' = IF r.cmd = "panic" THEN m ELSE r.m
    /\ db' = r.st
    /\ calls' = r.calls
    /\ status' = CASE r.cmd = "Quit" -> "quit"
                   [] r.cmd = "panic" -> "panic"
                   [] OTHER -> "running"
    /\ key' = k
    /\ typed' = IF m.inputmode = normal
                THEN IF r.m.inputmode # normal THEN noText ELSE typed
                ELSE IF k \in TextKeys
                     THEN [typed EXCEPT ![FocusedField] = Append(@, k)]
                     ELSE typed
    /\ atAdd' = IF r.m.inputmode = normal THEN noForm
                ELSE IF m.inputmode = normal
                     THEN [waste |-> m.waste, cursor |-> m.cursor]
                     ELSE atAdd
    /\ nTyped' = IF m.inputmode # normal /\ k \in TextKeys
                 THEN nTyped + 1 ELSE nTyped
    /\ UNCHANGED prog

\* What the store may answer while key k is handled: success or an error.
Answers(k) == IF k \in StoreKeys THEN BOOLEAN ELSE {TRUE}

\* A key in a form: enter, esc, or a character while the run's characters
\* last.
FormKey(k) == k \in FormKeys /\ (k \in TextKeys => nTyped < MaxTyped)

UpdateNormal1 ==
    /\ status = "running" /\ prog = 1 /\ m.inputmode = normal
    /\ \E k \in Keys : \E ok \in Answers(k) : Handle(k, ok)

UpdateAdding1 ==
    /\ status = "running" /\ prog = 1 /\ m.inputmode # normal
    /\ \E k \in FormKeys : \E ok \in Answers(k) : FormKey(k) /\ Handle(k, ok)

UpdateNormal2 ==
    /\ status = "running" /\ prog = 2 /\ m.inputmode = normal
    /\ \E k \in Keys : \E ok \in Answers(k) : Handle(k, ok)

UpdateAddingText2 ==
    /\ status = "running" /\ prog = 2
    /\ m.inputmode \in {addingName, addingWasteType, addingLocation, addingMethod}
    /\ \E k \in FormKeys : \E ok \in Answers(k) :
          /\ FormKey(k)
          /\ (m.inputmode = addingName /\ k = "enter") => Len(m.waste) < MaxWaste
          /\ Handle(k, ok)

UpdateAddingQuantity2 ==
    /\ status = "running" /\ prog = 2 /\ m.inputmode = addingQuantity
    /\ \E k \in FormKeys : \E ok \in Answers(k) : FormKey(k) /\ Handle(k, ok)

Next ==
    \/ main
    \/ UpdateNormal1
    \/ UpdateAdding1
    \/ UpdateNormal2
    \/ UpdateAddingText2
    \/ UpdateAddingQuantity2

Spec == Init /\ [][Next]_vars


\* ---------------------------------------------------- vocabulary of the claims

\* Update is handling a key: every step of a running program is one.
Running == status = "running"

Browsing == Running /\ m.inputmode = normal

Filling == Running /\ m.inputmode # normal

\* The store call the last key made succeeded / failed.
CallOk(cs, op) == Len(cs) = 1 /\ cs[1].op = op /\ cs[1].ok

CallFailed(cs, op) == Len(cs) = 1 /\ cs[1].op = op /\ ~cs[1].ok

\* The text of the field that has the focus.
FocusedValue(mm) ==
    IF prog = 1 THEN mm.inputs[mm.focusIndex].value ELSE mm.input

\* Every form field value is empty.
FieldsEmpty(mm) ==
    mm.input = <<>> /\ \A i \in Fields : mm.inputs[i].value = <<>>

\* --------------------------------------------------------------- C1

\* C1: whenever the item list is non-empty, the cursor is a valid index into
\* it (0 <= cursor <= len(list)-1), in every state the running program
\* reaches.
C1_CursorValid ==
    (status # "main" /\ Len(m.waste) > 0) => InRange(m.waste, m.cursor)

\* --------------------------------------------------------------- C2

\* C2: in Browsing mode move-up decrements the cursor by one unless it is 0,
\* and move-down increments it by one unless it is at the last index or the
\* list is empty; otherwise the cursor is unchanged.
C2_MoveStep ==
    [][Browsing =>
          /\ key' = "up" =>
                m'.cursor = IF m.cursor = 0 THEN m.cursor ELSE m.cursor - 1
          /\ key' = "down" =>
                m'.cursor = IF Len(m.waste) = 0 \/ m.cursor = Len(m.waste) - 1
                            THEN m.cursor ELSE m.cursor + 1]_vars


\* --------------------------------------------------------------- C3

C4_FailedDelete ==
    [][(Browsing /\ key' = "d" /\ CallFailed(calls', "delete")) =>
          /\ m'.waste = m.waste
          /\ m'.cursor = m.cursor
          /\ m'.inputmode = m.inputmode
          /\ m'.err = ErrDelete
          /\ db' = db]_vars

\* A delete of the second of two items has just failed.
C4_Witness ==
    /\ Running /\ key = "d" /\ CallFailed(calls, "delete")
    /\ Len(m.waste) = 2 /\ m.cursor = 1 /\ m.err = ErrDelete

\* --------------------------------------------------------------- C5

\* C5: the confirm on the last field of a form whose quantity parses, the
\* store not failing, ends in Browsing with the list that existed when add
\* was pressed followed by one item: the five values keyed in and the
\* identifier the store returned; every field value is cleared.
C5_SubmitAddsItem ==
    [][(/\ Filling /\ key' = "enter" /\ FocusedField = NumInputs - 1
        /\ ~ParseFloat(typed[1]).err
        /\ ~CallFailed(calls', "insert")) =>
          /\ status' = "running"
          /\ m'.inputmode = normal
          /\ CallOk(calls', "insert")
          /\ m'.waste = Append(atAdd.waste,
                               wasteItem(calls'[1].id, typed[0],
                                         ParseFloat(typed[1]).val,
                                         typed[2], typed[3], typed[4]))
          /\ FieldsEmpty(m')]_vars

\* --------------------------------------------------------------- C6

\* C6: the item list changes only in a step whose store insert or store
\* delete succeeded.
C6_ListChangesOnlyByStore ==
    [][(Running /\ m'.waste # m.waste) =>
          (CallOk(calls', "insert") \/ CallOk(calls', "delete"))]_vars

\* --------------------------------------------------------------- C7

\* C7: a cancel in a form leads to Browsing with every field value empty
\* and focusIndex 0, whatever was typed; an add in Browsing opens the form
\* on its first field with every field value empty.
C7_CancelClears ==
    [][/\ (Filling /\ key' = "esc") =>
             /\ status' = "running"
             /\ m'.inputmode = normal
             /\ m'.focusIndex = 0
             /\ FieldsEmpty(m')
       /\ (Browsing /\ key' = "a") =>
             /\ status' = "running"
             /\ m'.inputmode = addingName
             /\ FocusOf(m') = 0
             /\ FieldsEmpty(m')]_vars

\* A form in which a character was typed has just been cancelled.
C7_Witness ==
    Browsing /\ key = "esc" /\ typed # noText

\* --------------------------------------------------------------- C8

\* C8: the confirm on the quantity field validates it: a text that does not
\* parse sets last error to the invalid-quantity message and leaves the
\* focus on the quantity field; a text that parses clears last error and
\* moves the focus to the next field.
C8_QuantityCheckedAtConfirm ==
    [][(Filling /\ FocusedField = 1 /\ key' = "enter") =>
          /\ status' = "running"
          /\ m'.inputmode # normal
          /\ IF ParseFloat(FocusedValue(m)).err
             THEN m'.err \in {ErrQuantity1, ErrQuantity2} /\ FocusOf(m') = 1
             ELSE m'.err = ErrNil /\ FocusOf(m') = 2]_vars

\* --------------------------------------------------------------- C9

\* C9: when the store insert fails on the final confirm, last error is the
\* insert-failure message, the form stays open on its last field with its
\* field values, and the item list is unchanged.
C9_FailedInsertKeepsForm ==
    [][(Filling /\ key' = "enter" /\ CallFailed(calls', "insert")) =>
          /\ status' = "running"
          /\ m'.err = ErrAdd
          /\ m'.inputmode # normal
          /\ FocusOf(m') = NumInputs - 1
          /\ m'.input = m.input
          /\ \A i \in Fields : m'.inputs[i].value = m.inputs[i].value
          /\ m'.waste = m.waste]_vars

\* --------------------------------------------------------------- C10

\* C10: in a form, a character key appends that character to the value of
\* the focused field and leaves the other fields' values, the focus, the
\* mode, the cursor and the item list unchanged.
C10_CharAppends ==
    [][(Filling /\ key' \in TextKeys) =>
          /\ status' = "running"
          /\ FocusedValue(m') = Append(FocusedValue(m), key')
          /\ \A i \in Fields \ {FocusedField} :
                m'.inputs[i].value = m.inputs[i].value
          /\ FocusOf(m') = FocusedField
          /\ m'.inputmode = m.inputmode
          /\ m'.cursor = m.cursor
          /\ m'.waste = m.waste]_vars

\* --------------------------------------------------------------- C11

\* The transitions that change state without failing: a successful delete,
\* a cursor move, add, cancel, and a confirm that advances the form or
\* completes it with a successful insert.
SuccessfulTransition ==
    \/ Browsing /\ key' = "d" /\ CallOk(calls', "delete")
    \/ Browsing /\ key' \in {"up", "down"} /\ m'.cursor # m.cursor
    \/ Browsing /\ key' = "a" /\ m'.inputmode # normal
    \/ Filling /\ key' = "esc" /\ m'.inputmode = normal
    \/ Filling /\ key' = "enter" /\ m'.inputmode # normal
          /\ FocusOf(m') = FocusedField + 1
    \/ Filling /\ key' = "enter" /\ CallOk(calls', "insert")

\* C11: a transition that changes state without failing leaves last error
\* empty: no error is still displayed after it.
C11_ErrorCleared ==
    [][SuccessfulTransition => m'.err = ErrNil]_vars

\* --------------------------------------------------------------- C12

\* The form fields that hold the input focus.
Focused(mm) == {i \in Fields : mm.inputs[i].focus}

\* C12: in form mode at most one form field holds the input focus, and in
\* Browsing mode (the state after startup included) no field holds it.
C12_FocusInvariant ==
    /\ Filling => Cardinality(Focused(m)) <= 1
    /\ Browsing => Focused(m) = {}

\* --------------------------------------------------------------- C13

\* C13: focusIndex stays within 0 .. len(inputs) in every state, and in form
\* mode the focused field, which the handlers use as the index into
\* m.inputs, is one of the fields 0 .. len(inputs) - 1.
C13_FocusIndexInRange ==
    status # "main" =>
        /\ m.focusIndex \in 0 .. NumInputs
        /\ Filling => FocusedField \in Fields

\* The form opened again after a submit was attempted on the last field,
\* the form was cancelled and focusIndex was moved in Browsing mode to the
\* submit position len(inputs), which blurs every field.
C13_Witness ==
    /\ prog = 1 /\ Filling /\ key = "a"
    /\ m.focusIndex = 0
    /\ m.err = ErrQuantity1
    /\ Focused(m) = {0}

\* --------------------------------------------------------------- C14

\* C14: startup either ends the process (log.Fatalf) with the store and the
\* model untouched and no input processed, or enters the loop with the list
\* holding the loaded records, in Browsing mode with cursor 0; a process
\* ended at startup takes no further step, and input is processed and the
\* store is called only by the running loop.
C14_FatalStartup ==
    [][/\ status = "main" =>
              /\ db' = db /\ key' = "" /\ calls' = <<>>
              /\ \/ status' = "fatal" /\ m' = m
                 \/ /\ status' = "running"
                    /\ m'.waste = loadWasteItems(db)
                    /\ m'.inputmode = normal
                    /\ m'.cursor = 0
       /\ status # "fatal"
       /\ (key' # key \/ calls' # <<>> \/ db' # db) => status = "running"]_vars

\* A startup that failed on a store that holds records.
C14_Witness == status = "fatal" /\ Len(db.rows) > 0 /\ key = ""

\* --------------------------------------------------------------- C15

C16_QuitOnlyInBrowsing ==
    [][status' = "quit" => Browsing /\ key' \in QuitKeys]_vars

\* enter pressed in Browsing mode with focusIndex on the submit position
\* len(inputs), and the program still runs.
C16_Witness ==
    /\ prog = 1 /\ Browsing /\ key = "enter"
    /\ m.focusIndex = NumInputs

\* --------------------------------------------------------------- C17

\* C17: no key handled in form mode changes the cursor: after every such
\* key, the cancel and the submit (successful or failed) included, the
\* cursor is the one the list had when "a" opened the form.
C17_FormKeepsCursor ==
    [][Filling => m'.cursor = m.cursor /\ m'.cursor = atAdd.cursor]_vars

\* A submit has just added a second item to the list and the cursor is
\* still on the first.
C17_Witness ==
    /\ Browsing /\ key = "enter" /\ CallOk(calls, "insert")
    /\ Len(m.waste) = 2 /\ m.cursor = 0

\* --------------------------------------------------------------- C18

\* The ids of a sequence of items, with their multiplicities.
IdBag(s) ==
    LET ids == {s[i].id : i \in 1 .. Len(s)} IN
    [id \in ids |-> Cardinality({i \in 1 .. Len(s) : s[i].id = id})]

\* C18: in every Browsing state the ids of the items in the list, counted
\* with multiplicity, are the ids of the rows in the store: no item with id
\* 0, no item twice, no row without its item.
C18_ListMatchesStore ==
    Browsing => /\ IdBag(m.waste) = IdBag(db.rows)
                /\ \A i \in 1 .. Len(m.waste) : m.waste[i].id # 0

\* --------------------------------------------------------------- C19

\* C19: no handler indexes or slices the item list out of range: the program
\* never dies of an index out of range.
C19_NoOutOfRange == status # "panic"

=============================================================================
